---- MODULE Spec2Model ----
(***************************************************************************)
(* Chronos Brain: the protocol-analysis pipeline in its two variants, the  *)
(* server module (src/chronos-brain.js) and the edge function              *)
(* (src/unnamed/part_000).  One invocation is a sequence of steps, each    *)
(* running from one await to the next.                                     *)
(***************************************************************************)
EXTENDS Integers, Sequences, FiniteSets, TLC

(***************************************************************************)
(* Program constants and the bounds of the model.                          *)
(***************************************************************************)
maxWaitMs == 120000
pollIntervalMs == 1500
ListLimit == 10

\* The longest time (ms) one outbound call takes to answer.
Latency == 60000

Variants == {"server", "edge"}

(***************************************************************************)
(* JavaScript values.  A value is a record [t, s]: t is its type tag and s *)
(* its payload (a string's text, a number's digits, or for an object or    *)
(* array the JSON text of its single member).                              *)
(***************************************************************************)
Undefined == [t |-> "undefined", s |-> ""]
Null == [t |-> "null", s |-> ""]
Str(x) == [t |-> "str", s |-> x]
Num(x) == [t |-> "num", s |-> x]
Obj(x) == [t |-> "obj", s |-> x]
Arr(x) == [t |-> "arr", s |-> x]

\* ToBoolean: undefined, null, 0 and "" are falsy.
Truthy(v) ==
    /\ v.t \notin {"undefined", "null"}
    /\ ~(v.t = "num" /\ v.s = "0")
    /\ ~(v.t = "str" /\ v.s = "")

\* typeof v === 'object' (true of null, objects and arrays).
TypeofObject(v) == v.t \in {"null", "obj", "arr"}

IsArray(v) == v.t = "arr"

Nullish(v) == v.t \in {"undefined", "null"}

\* a || b and a ?? b
Or(a, b) == IF Truthy(a) THEN a ELSE b
Coalesce(a, b) == IF Nullish(a) THEN b ELSE a

\* JSON.stringify(v, null, 2) of a value nested at indentation ind.
Stringify(v, ind) ==
    CASE v.t = "null" -> "null"
      [] v.t = "num" -> v.s
      [] v.t = "str" -> "\"" \o v.s \o "\""
      [] v.t = "obj" -> "{\n" \o ind \o "  " \o v.s \o "\n" \o ind \o "}"
      [] v.t = "arr" -> "[\n" \o ind \o "  " \o v.s \o "\n" \o ind \o "]"

RECURSIVE Join(_, _)
Join(seq, sep) ==
    IF Len(seq) = 0 THEN ""
    ELSE IF Len(seq) = 1 THEN seq[1]
    ELSE seq[1] \o sep \o Join(Tail(seq), sep)

(***************************************************************************)
(* UserData: the input of the pipeline.  kind is the type of the input     *)
(* itself and f gives, for an object, the value of each key the formatter  *)
(* reads (Undefined: the key is absent).                                   *)
(***************************************************************************)
UserKeys == <<"biometrics", "clinical_markers", "clinical_audit", "labs",
              "calendar_events", "calendar">>
UserKeySet == {UserKeys[i] : i \in 1..Len(UserKeys)}

NoFields == [k \in UserKeySet |-> Undefined]
UserNull == [kind |-> "null", f |-> NoFields]
UserUndefined == [kind |-> "undefined", f |-> NoFields]
UserString == [kind |-> "str", f |-> NoFields]
UserArray == [kind |-> "arr", f |-> NoFields]
UserObject(f) == [kind |-> "obj", f |-> f]

FieldValues == {Undefined, Null, Num("0"), Str("high"), Obj("\"hr\": 60"),
                Arr("\"standup\"")}

\* !userData || typeof userData !== 'object'
NotAnObject(userData) == userData.kind \notin {"obj", "arr"}

\* JSON.stringify(userData, null, 2): keys in order, undefined ones omitted.
RECURSIVE Members(_, _)
Members(f, i) ==
    IF i > Len(UserKeys) THEN <<>>
    ELSE IF f[UserKeys[i]].t = "undefined" THEN Members(f, i + 1)
    ELSE <<"  \"" \o UserKeys[i] \o "\": " \o Stringify(f[UserKeys[i]], "  ")>>
             \o Members(f, i + 1)

StringifyUserData(userData) ==
    IF userData.kind = "arr" THEN "[]"
    ELSE IF Members(userData.f, 1) = <<>> THEN "{}"
    ELSE "{\n" \o Join(Members(userData.f, 1), ",\n") \o "\n}"

\* The titled sections, in the fixed order biometrics, labs, calendar.
Sections(biometrics, labs, calendar, arrayNeedsTruthy) ==
    (IF Truthy(biometrics) /\ TypeofObject(biometrics)
       THEN <<"## Biometrics\n" \o Stringify(biometrics, "")>> ELSE <<>>)
    \o (IF Truthy(labs) /\ TypeofObject(labs)
       THEN <<"## Labs / Clinical\n" \o Stringify(labs, "")>> ELSE <<>>)
    \o (IF (arrayNeedsTruthy => Truthy(calendar)) /\ IsArray(calendar)
       THEN <<"## Calendar\n" \o Stringify(calendar, "")>>
       ELSE IF Truthy(calendar) /\ TypeofObject(calendar)
       THEN <<"## Calendar\n" \o Stringify(calendar, "")>> ELSE <<>>)

formatExecutivePayload(biometrics, labs, calendar) ==
    LET sections == Sections(biometrics, labs, calendar, TRUE)
    IN IF Len(sections) > 0 THEN Join(sections, "\n\n") ELSE "No data provided."

formatUserDataPayloadServer(userData) ==
    IF NotAnObject(userData) THEN "No data provided."
    ELSE LET biometrics == userData.f["biometrics"]
             labs == Or(userData.f["clinical_markers"],
                        Or(userData.f["clinical_audit"], userData.f["labs"]))
             calendar == Or(userData.f["calendar_events"], userData.f["calendar"])
         IN IF Truthy(biometrics) \/ Truthy(labs) \/ Truthy(calendar)
            THEN formatExecutivePayload(biometrics, labs, calendar)
            ELSE StringifyUserData(userData)

formatUserDataPayloadEdge(userData) ==
    IF NotAnObject(userData) THEN "No data provided."
    ELSE LET biometrics == userData.f["biometrics"]
             labs == Coalesce(userData.f["clinical_markers"],
                        Coalesce(userData.f["clinical_audit"], userData.f["labs"]))
             calendar == Coalesce(userData.f["calendar_events"], userData.f["calendar"])
             sections == Sections(biometrics, labs, calendar, FALSE)
         IN IF Len(sections) > 0 THEN Join(sections, "\n\n")
            ELSE StringifyUserData(userData)

formatUserDataPayload(v, userData) ==
    IF v = "server" THEN formatUserDataPayloadServer(userData)
    ELSE formatUserDataPayloadEdge(userData)

(***************************************************************************)
(* The thread's messages as list-messages returns them.  A content part is *)
(* [type, hasText, value]: hasText says whether the part has a text field  *)
(* and value is text.value.                                                *)
(***************************************************************************)
TextPart(v) == [type |-> "text", hasText |-> TRUE, value |-> v]
BareTextPart == [type |-> "text", hasText |-> FALSE, value |-> Undefined]
ImagePart == [type |-> "image_file", hasText |-> FALSE, value |-> Undefined]

Message(role, hasContent, content) ==
    [role |-> role, hasContent |-> hasContent, content |-> content]
UserMessage == Message("user", TRUE, <<TextPart(Str("## Biometrics"))>>)

NoMessage == Message("none", FALSE, <<>>)

\* list.data.find((m) => m.role === 'assistant')
RECURSIVE FindAssistant(_)
FindAssistant(data) ==
    IF Len(data) = 0 THEN NoMessage
    ELSE IF data[1].role = "assistant" THEN data[1]
    ELSE FindAssistant(Tail(data))

\* content.find((p) => p.type === 'text'); ImagePart stands for "not found"
\* only through its type, which the callers test.
RECURSIVE FindText(_)
FindText(content) ==
    IF Len(content) = 0 THEN ImagePart
    ELSE IF content[1].type = "text" THEN content[1]
    ELSE FindText(Tail(content))

Threw(message) == [threw |-> TRUE, message |-> message, value |-> ""]
Returned(value) == [threw |-> FALSE, message |-> "", value |-> value]

NoAssistantMessage == "No assistant message in thread"
NoTextContent == "No text content in assistant message"

\* The extraction without the test for a missing or empty content.
getLatestAssistantMessageAnyContent(data) ==
    LET assistantMessage == FindAssistant(data)
        part == FindText(assistantMessage.content)
    IN IF assistantMessage.role # "assistant"
       THEN Threw(NoAssistantMessage)
       ELSE IF part.type # "text" \/ ~part.hasText \/ part.value.t # "str"
       THEN Threw(NoTextContent)
       ELSE Returned(part.value.s)

getLatestAssistantMessageServer(data) ==
    LET assistantMessage == FindAssistant(data)
        part == FindText(assistantMessage.content)
    IN IF \/ assistantMessage.role # "assistant"
          \/ ~assistantMessage.hasContent
          \/ Len(assistantMessage.content) = 0
       THEN Threw(NoAssistantMessage)
       ELSE IF part.type # "text" \/ ~part.hasText \/ part.value.t # "str"
       THEN Threw(NoTextContent)
       ELSE Returned(part.value.s)

getLatestAssistantMessageEdge(data) ==
    LET assistantMessage == FindAssistant(data)
        part == FindText(assistantMessage.content)
        text == IF part.type = "text" /\ part.hasText THEN part.value ELSE Null
    IN IF \/ assistantMessage.role # "assistant"
          \/ ~assistantMessage.hasContent
          \/ Len(assistantMessage.content) = 0
          \/ \A i \in 1..Len(assistantMessage.content) :
                 assistantMessage.content[i].type # "text"
       THEN Threw(NoAssistantMessage)
       ELSE IF text.t # "str" THEN Threw(NoTextContent)
       ELSE Returned(text.s)

getLatestAssistantMessage(v, data) ==
    IF v = "server" THEN getLatestAssistantMessageServer(data)
    ELSE getLatestAssistantMessageEdge(data)

\* What the service answers to list(threadId, {order: 'desc', limit}): the
\* newest limit messages of the thread, newest first.
ListMessages(thread, limit) ==
    SubSeq(thread, 1, IF Len(thread) < limit THEN Len(thread) ELSE limit)

(***************************************************************************)
(* The assistant's reply text and its parsing.  A reply text is the        *)
(* concatenation of the pieces the parser's trim and fence pattern take    *)
(* apart: leading text, the opening fence, the body, the closing fence,    *)
(* trailing whitespace.                                                    *)
(***************************************************************************)
ReplyKeys == {"directive", "recommendation", "summary", "insight", "analysis",
              "status", "statusText", "protocolLogMessage"}
NoReplyFields == [k \in ReplyKeys |-> Undefined]
ParsedObject(f) == [t |-> "obj", f |-> f]
ParsedUndefined == [t |-> "undefined", f |-> NoReplyFields]
ParsedNull == [t |-> "null", f |-> NoReplyFields]
ParsedNumber == [t |-> "num", f |-> NoReplyFields]
ParsedArray == [t |-> "arr", f |-> NoReplyFields]

With(f, k, v) == [f EXCEPT ![k] = v]

ReplyRest == ParsedObject(With(NoReplyFields, "directive", Str("Rest today")))
ReplyHydration ==
    ParsedObject(With(With(NoReplyFields, "summary", Str("Increase hydration")),
                      "analysis", Str("Electrolytes low")))

SyntaxError == "Unexpected end of JSON input"

\* JSON.parse(raw) on the documents the replies carry.
JsonParse(raw) ==
    CASE raw = "{\"directive\":\"Rest today\"}" -> Returned(ReplyRest)
      [] raw = "{\"summary\":\"Increase hydration\",\"analysis\":\"Electrolytes low\"}"
           -> Returned(ReplyHydration)
      [] raw = "{}" -> Returned(ParsedObject(NoReplyFields))
      [] raw = "null" -> Returned(ParsedNull)
      [] raw = "42" -> Returned(ParsedNumber)
      [] raw = "[]" -> Returned(ParsedArray)
      [] OTHER -> [threw |-> TRUE, message |-> SyntaxError, value |-> ParsedNull]

Bodies == {"{\"directive\":\"Rest today\"}",
           "{\"summary\":\"Increase hydration\",\"analysis\":\"Electrolytes low\"}",
           "{}", "null", "42", "[]", "{\"directive\": ", ""}

\* Stands for the fence of three backticks.
Fence == "<fence>"

Piece(lead, open, body, close, trail) ==
    [lead |-> lead, open |-> open, body |-> body, close |-> close, trail |-> trail]
Pieces ==
    {Piece("", "", b, "", "") : b \in Bodies}
    \cup {Piece(" \n", "", b, "", "\n") : b \in Bodies}
    \cup {Piece("", Fence \o "json\n", b, "\n" \o Fence, "") : b \in Bodies}
    \cup {Piece("", Fence, b, Fence, "\n") : b \in Bodies}
    \cup {Piece("Here is the protocol:\n", Fence \o "json\n", b, "\n" \o Fence, "")
              : b \in Bodies}
    \cup {Piece("Here is the protocol:\n", "", b, "", "") : b \in Bodies}

TextOf(p) == p.lead \o p.open \o p.body \o p.close \o p.trail

IsWhitespace(x) == x \in {"", " \n", "\n"}

\* trim(), then the first fenced block (three backticks, an optional json
\* tag, the content up to the next three backticks), whose content is trimmed,
\* else the whole trimmed text.
parseAssistantJson(text) ==
    LET p == CHOOSE p \in Pieces : TextOf(p) = text
        trimmed == (IF IsWhitespace(p.lead) THEN "" ELSE p.lead)
                       \o p.open \o p.body \o p.close
        raw == IF p.open # "" THEN p.body ELSE trimmed
    IN JsonParse(raw)

(***************************************************************************)
(* The dashboard normalizer.                                               *)
(***************************************************************************)
Fields(directive, insight, statusText, protocolLogMessage) ==
    [threw |-> FALSE, message |-> "",
     directive |-> directive, insight |-> insight, statusText |-> statusText,
     protocolLogMessage |-> protocolLogMessage]
FieldsThrew(message) ==
    [threw |-> TRUE, message |-> message,
     directive |-> Undefined, insight |-> Undefined, statusText |-> Undefined,
     protocolLogMessage |-> Undefined]

Pick(parsed) ==
    Fields(Coalesce(parsed.f["directive"],
               Coalesce(parsed.f["recommendation"],
                   Coalesce(parsed.f["summary"], Str("")))),
           Coalesce(parsed.f["insight"], Coalesce(parsed.f["analysis"], Str(""))),
           Coalesce(parsed.f["status"],
               Coalesce(parsed.f["statusText"], Str("Optimal Baseline"))),
           Coalesce(parsed.f["protocolLogMessage"],
               Coalesce(parsed.f["directive"],
                   Coalesce(parsed.f["summary"], Str("")))))

normalizeForDashboardServer(parsed) ==
    IF parsed.t \notin {"obj", "arr"}
    THEN Fields(Str(""), Str(""), Str(""), Str(""))
    ELSE Pick(parsed)

\* No guard: reading parsed.directive of null is a TypeError.
normalizeForDashboardEdge(parsed) ==
    IF parsed.t = "null"
    THEN FieldsThrew("Cannot read properties of null")
    ELSE Pick(parsed)

normalizeForDashboard(v, parsed) ==
    IF v = "server" THEN normalizeForDashboardServer(parsed)
    ELSE normalizeForDashboardEdge(parsed)

(***************************************************************************)
(* The results runProtocolAnalysis returns.                                *)
(***************************************************************************)
NoResult == [status |-> "pending"]

CompletedResult(parsed, text, forDashboard) ==
    [protocolCached |-> FALSE, status |-> "completed", data |-> parsed,
     rawText |-> text,
     directive |-> forDashboard.directive, insight |-> forDashboard.insight,
     statusText |-> forDashboard.statusText,
     protocolLogMessage |-> forDashboard.protocolLogMessage]

PROTOCOL_CACHED_FALLBACK ==
    [protocolCached |-> TRUE, message |-> "Protocol Cached", status |-> "cached",
     directive |-> Str("Using last known protocol. AI temporarily unavailable."),
     insight |-> Str(""), data |-> ParsedNull]

\* runProtocolAnalysis rejecting with the error instead of returning.
Rejected(message) == [status |-> "rejected", error |-> message]

\* catch (err) of the server module: error is err.message || String(err).
CatchServer(message) ==
    [k \in DOMAIN PROTOCOL_CACHED_FALLBACK \cup {"error"} |->
        IF k = "error" THEN (IF message # "" THEN message ELSE "Error")
        ELSE PROTOCOL_CACHED_FALLBACK[k]]

\* catch (err) of the edge function.
CatchEdge(message) ==
    [protocolCached |-> TRUE, message |-> "Protocol Cached", status |-> "cached",
     directive |-> Str("Using last known protocol. AI temporarily unavailable."),
     insight |-> Str(""), statusText |-> Str("Protocol Cached"),
     protocolLogMessage |-> Str(""), error |-> message]

\* A catch that handles the errors of the calls and rethrows a SyntaxError.
CatchRethrowingSyntaxError(v, message) ==
    IF message = SyntaxError THEN Rejected(message)
    ELSE IF v = "server" THEN CatchServer(message) ELSE CatchEdge(message)

Catch(v, message) == IF v = "server" THEN CatchServer(message) ELSE CatchEdge(message)

\* The edge function's answer when Deno.env.get("OPENAI_API_KEY") is empty.
MissingKeyResult ==
    [protocolCached |-> TRUE, message |-> "Protocol Cached", status |-> "cached",
     directive |-> Str("Using last known protocol. OPENAI_API_KEY not set."),
     insight |-> Str(""), statusText |-> Str("Protocol Cached"),
     protocolLogMessage |-> Str(""), error |-> "OPENAI_API_KEY not set"]

TimeoutMessage == "Run did not complete within max wait time"
RunEnded(status) == "Run ended with status: " \o status

NoText == Returned("")
NoFieldsYet == Fields(Undefined, Undefined, Undefined, Undefined)

(***************************************************************************)
(* The inputs of one invocation.                                           *)
(***************************************************************************)
AllUserData ==
    {UserNull, UserUndefined, UserString, UserArray}
    \cup {UserObject(f) : f \in [UserKeySet -> FieldValues]}

\* The inputs the pipeline is run on.
PipelineUserData ==
    {UserNull, UserObject(NoFields),
     UserObject(With(With(NoFields, "biometrics", Obj("\"hr\": 60")),
                     "calendar", Arr("\"standup\"")))}

\* Parsed replies: each key absent, null or a string of its own.
AllParsed ==
    {ParsedNull, ParsedNumber, ParsedArray, ReplyRest, ReplyHydration}
    \cup {ParsedObject(f) :
            f \in [ReplyKeys -> {Undefined, Null, Str("a"), Str("b")}]}

Methods == {"OPTIONS", "GET", "PUT", "POST"}

\* What an outbound call can throw: an Error with or without a message.
ErrorMessages == {"Connection error.", ""}

RunStatuses == {"queued", "in_progress", "requires_action", "completed",
                "failed", "cancelled", "expired"}
\* The statuses after which the service never changes the run again.
TerminalStatuses == {"completed", "failed", "cancelled", "expired"}

PipelinePieces ==
    {p \in Pieces : \/ p.open = "" /\ p.lead = ""
                    \/ p.body \in {"{\"directive\":\"Rest today\"}", "{\"directive\": "}}
PipelineTexts == {TextOf(p) : p \in PipelinePieces}

AssistantMessage(hasContent, content) == Message("assistant", hasContent, content)

RECURSIVE Lead(_)
Lead(n) == IF n = 0 THEN <<>> ELSE <<UserMessage>> \o Lead(n - 1)

\* The replies an assistant message can carry.
Contents ==
    {<<ImagePart>>, <<BareTextPart>>, <<TextPart(Num("7"))>>,
     <<TextPart(Num("7")), TextPart(Str("{}"))>>,
     <<ImagePart, TextPart(Str("{}"))>>,
     <<TextPart(Str("{}")), TextPart(Str("null"))>>}
    \cup {<<TextPart(Str(t))>> : t \in PipelineTexts}

\* The threads the service may hold when the messages are listed, newest
\* message first.
Threads ==
    {Lead(n) : n \in {0, 1}}
    \cup {<<AssistantMessage(FALSE, <<>>), UserMessage>>,
          <<AssistantMessage(TRUE, <<>>), UserMessage>>,
          <<AssistantMessage(TRUE, <<>>), AssistantMessage(TRUE, <<TextPart(Str("{}"))>>)>>}
    \cup {<<AssistantMessage(TRUE, c), UserMessage>> : c \in Contents}
    \cup {Lead(n) \o <<AssistantMessage(TRUE, <<TextPart(Str("{}"))>>), UserMessage>>
             : n \in {ListLimit - 1, ListLimit}}

(***************************************************************************)
(* The state of one invocation.                                            *)
(***************************************************************************)
VARIABLES
    variant,      \* which implementation runs
    apiKey,       \* OPENAI_API_KEY; "" when it is not set
    client,       \* the OpenAI client: "null" until one is constructed
    req,          \* the request (edge) or the call and its argument (server)
    userData,     \* the argument of runProtocolAnalysis
    pc,           \* the await the invocation is suspended at
    calls,        \* the outbound calls issued so far, in order
    threads,      \* threads the service created for this invocation
    runs,         \* runs the service created for this invocation
    now,          \* Date.now()
    startedAt,    \* startedAt of waitForRun
    observed,     \* the terminal status a status read returned, else "none"
    failed,       \* the outbound call that threw, else "none"
    thread,       \* the messages of the thread when they are listed
    listed,       \* list.data as list-messages returned it
    payload,      \* const payload of runProtocolAnalysis
    text,         \* what getLatestAssistantMessage returned or threw
    parsed,       \* const parsed of runProtocolAnalysis
    forDashboard, \* const forDashboard of runProtocolAnalysis
    result,       \* what runProtocolAnalysis returned
    response      \* the HTTP response of the edge function

vars == <<variant, apiKey, client, req, userData, pc, calls, threads, runs, now,
          startedAt, observed, failed, thread, listed, payload, text, parsed,
          forDashboard, result, response>>

NoResponse == [status |-> 0, body |-> "none"]
Call(op, arg) == [op |-> op, arg |-> arg]

\* The state before anything ran.
Fresh ==
    /\ userData = UserUndefined
    /\ calls = <<>>
    /\ threads = 0
    /\ runs = 0
    /\ now = 0
    /\ startedAt = 0
    /\ observed = "none"
    /\ failed = "none"
    /\ thread = <<>>
    /\ listed = <<>>
    /\ payload = ""
    /\ text = NoText
    /\ parsed = ParsedUndefined
    /\ forDashboard = NoFieldsYet
    /\ result = NoResult
    /\ response = NoResponse

Init ==
    /\ variant \in Variants
    /\ apiKey \in {"", "sk-test"}
    /\ client \in IF variant = "server" /\ apiKey # "" THEN {"null", "constructed"}
                  ELSE {"null"}
    /\ req \in IF variant = "edge"
               THEN [method : Methods, bodyOk : BOOLEAN, body : PipelineUserData]
               ELSE [method : {"call"}, bodyOk : {TRUE},
                     body : PipelineUserData \cup {UserUndefined}]
    /\ pc = IF variant = "edge" THEN "request" ELSE "call"
    /\ Fresh

\* return of runProtocolAnalysis
Return(r) ==
    /\ result' = r
    /\ pc' = "returned"

\* An outbound call threw: the catch block turns the error into the result.
Throw(op, message) ==
    /\ failed' = op
    /\ Return(Catch(variant, message))

\* The loop condition with <= for <.
LoopContinuesInclusive(t, start) == t - start <= maxWaitMs

\* while (Date.now() - startedAt < maxWaitMs)
LoopContinues(t, start) == t - start < maxWaitMs

\* The head of the loop of waitForRun at time t: issue a status read or time
\* out.
LoopHead(t, start) ==
    IF LoopContinues(t, start)
    THEN /\ calls' = Append(calls, Call("retrieve-run", ""))
         /\ pc' = "retrieve"
         /\ result' = result
    ELSE /\ calls' = calls
         /\ Return(Catch(variant, TimeoutMessage))

\* The test of the abnormal endings without expired.
EndedAbnormallyForgetsExpired(status) == status \in {"failed", "cancelled"}

\* status === 'failed' || status === 'cancelled' || status === 'expired'
EndedAbnormally(status) == status \in {"failed", "cancelled", "expired"}

\* getClient() of the server module, new OpenAI({ apiKey }) of the edge function.
getClient == IF variant = "server" /\ client = "constructed" THEN client ELSE "constructed"

\* runProtocolAnalysis without the check of the credential.
runProtocolAnalysisUnchecked(data) ==
    /\ userData' = data
    /\ client' = "constructed"
    /\ payload' = formatUserDataPayload(variant, data)
    /\ calls' = Append(calls, Call("create-thread", ""))
    /\ pc' = "createThread"
    /\ UNCHANGED <<variant, apiKey, req, threads, runs, now, startedAt, observed,
                   failed, thread, listed, text, parsed, forDashboard, result>>

\* runProtocolAnalysis(data) up to its first await.
runProtocolAnalysis(data) ==
    /\ userData' = data
    /\ IF apiKey = ""
       THEN /\ Return(IF variant = "edge" THEN MissingKeyResult
                      ELSE Catch(variant, "OPENAI_API_KEY is not set"))
            /\ UNCHANGED <<client, calls, payload>>
       ELSE /\ client' = getClient
            /\ payload' = formatUserDataPayload(variant, data)
            /\ calls' = Append(calls, Call("create-thread", ""))
            /\ pc' = "createThread"
            /\ result' = result
    /\ UNCHANGED <<variant, apiKey, req, threads, runs, now, startedAt, observed,
                   failed, thread, listed, text, parsed, forDashboard>>

(***************************************************************************)
(* The steps of a call of the server module and of a request to the edge   *)
(* function.                                                               *)
(***************************************************************************)
Respond(status, body) ==
    /\ response' = [status |-> status, body |-> body]
    /\ pc' = "done"

\* A caller of the server module calls runProtocolAnalysis(userData).
Invoke ==
    /\ pc = "call"
    /\ runProtocolAnalysis(req.body)
    /\ UNCHANGED response

\* Deno.serve handler, up to await req.json().
ServeRequest ==
    /\ pc = "request"
    /\ IF req.method = "OPTIONS" THEN Respond(204, "empty")
       ELSE IF req.method # "POST" THEN Respond(405, "Method not allowed")
       ELSE /\ pc' = "reqJson"
            /\ response' = response
    /\ UNCHANGED <<variant, apiKey, client, req, userData, calls, threads, runs, now,
                   startedAt, observed, failed, thread, listed, payload, text,
                   parsed, forDashboard, result>>

\* The handler without the try around req.json(): its rejection leaves the
\* handler and the runtime answers 500.
BodyReadUnguarded ==
    /\ pc = "reqJson"
    /\ IF ~req.bodyOk
       THEN /\ Respond(500, "Internal Server Error")
            /\ UNCHANGED <<variant, apiKey, client, req, userData, calls, threads,
                           runs, now, startedAt, observed, failed, thread, listed,
                           payload, text, parsed, forDashboard, result>>
       ELSE /\ runProtocolAnalysis(req.body)
            /\ response' = response

\* req.json() settled: 400 on a body that is not JSON, else the analysis starts.
BodyRead ==
    /\ pc = "reqJson"
    /\ IF ~req.bodyOk
       THEN /\ Respond(400, "Invalid JSON body")
            /\ UNCHANGED <<variant, apiKey, client, req, userData, calls, threads,
                           runs, now, startedAt, observed, failed, thread, listed,
                           payload, text, parsed, forDashboard, result>>
       ELSE /\ runProtocolAnalysis(req.body)
            /\ response' = response

\* A thread creation that is tried a second time when it fails.
ThreadCreatedRetrying ==
    /\ pc = "createThread"
    /\ \/ /\ threads' = threads + 1
          /\ calls' = Append(calls, Call("create-message", payload))
          /\ pc' = "createMessage"
          /\ UNCHANGED <<failed, result>>
       \/ /\ Len(calls) = 1
          /\ calls' = Append(calls, Call("create-thread", ""))
          /\ UNCHANGED <<threads, pc, failed, result>>
       \/ \E m \in ErrorMessages :
            /\ Len(calls) > 1
            /\ Throw("create-thread", m)
            /\ UNCHANGED <<threads, calls>>
    /\ UNCHANGED <<variant, apiKey, client, req, userData, runs, now, startedAt,
                   observed, thread, listed, payload, text, parsed, forDashboard,
                   response>>

\* openai.beta.threads.create() settled.
ThreadCreated ==
    /\ pc = "createThread"
    /\ \/ /\ threads' = threads + 1
          /\ calls' = Append(calls, Call("create-message", payload))
          /\ pc' = "createMessage"
          /\ UNCHANGED <<failed, result>>
       \/ \E m \in ErrorMessages :
            /\ Throw("create-thread", m)
            /\ UNCHANGED <<threads, calls>>
    /\ UNCHANGED <<variant, apiKey, client, req, userData, runs, now, startedAt,
                   observed, thread, listed, payload, text, parsed, forDashboard,
                   response>>

\* openai.beta.threads.messages.create(...) settled.
MessageCreated ==
    /\ pc = "createMessage"
    /\ \/ /\ calls' = Append(calls, Call("create-run", "asst_idrCrYpx7nA42iEL0HJNRQNQ"))
          /\ pc' = "createRun"
          /\ UNCHANGED <<failed, result>>
       \/ \E m \in ErrorMessages :
            /\ Throw("create-message", m)
            /\ UNCHANGED calls
    /\ UNCHANGED <<variant, apiKey, client, req, userData, threads, runs, now,
                   startedAt, observed, thread, listed, payload, text, parsed,
                   forDashboard, response>>

\* openai.beta.threads.runs.create(...) settled; waitForRun starts.
RunCreated ==
    /\ pc = "createRun"
    /\ \E d \in {0, Latency} :
         /\ now' = now + d
         /\ \/ /\ runs' = runs + 1
               /\ startedAt' = now'
               /\ LoopHead(now', startedAt')
               /\ UNCHANGED failed
            \/ \E m \in ErrorMessages :
                 /\ Throw("create-run", m)
                 /\ UNCHANGED <<runs, startedAt, calls>>
    /\ UNCHANGED <<variant, apiKey, client, req, userData, threads, observed, thread,
                   listed, payload, text, parsed, forDashboard, response>>

\* openai.beta.threads.runs.retrieve(...) settled with a status, or threw.
RunRetrieved ==
    /\ pc = "retrieve"
    /\ \E d \in {0, Latency} :
         /\ now' = now + d
         /\ \/ \E status \in RunStatuses :
                 /\ observed' = IF status \in TerminalStatuses THEN status ELSE observed
                 /\ IF status = "completed"
                    THEN /\ calls' = Append(calls, Call("list-messages", "desc"))
                         /\ pc' = "list"
                         /\ UNCHANGED result
                    ELSE IF EndedAbnormally(status)
                    THEN /\ Return(Catch(variant, RunEnded(status)))
                         /\ UNCHANGED calls
                    ELSE /\ pc' = "sleep"
                         /\ UNCHANGED <<calls, result>>
                 /\ UNCHANGED failed
            \/ \E m \in ErrorMessages :
                 /\ Throw("retrieve-run", m)
                 /\ UNCHANGED <<observed, calls>>
    /\ UNCHANGED <<variant, apiKey, client, req, userData, threads, runs, startedAt,
                   thread, listed, payload, text, parsed, forDashboard, response>>

\* setTimeout(r, pollIntervalMs) fired; back to the head of the loop.
TimerFired ==
    /\ pc = "sleep"
    /\ now' = now + pollIntervalMs
    /\ LoopHead(now', startedAt)
    /\ UNCHANGED <<variant, apiKey, client, req, userData, threads, runs, startedAt,
                   observed, failed, thread, listed, payload, text, parsed,
                   forDashboard, response>>

\* The rest of the try block once the text is in hand, and its catch.
Finish(t) ==
    LET p == IF t.threw THEN Threw("") ELSE parseAssistantJson(t.value)
        ok == ~t.threw /\ ~p.threw
        fd == IF ok THEN normalizeForDashboard(variant, p.value) ELSE NoFieldsYet
    IN /\ text' = t
       /\ parsed' = IF ok THEN p.value ELSE ParsedUndefined
       /\ forDashboard' = fd
       /\ Return(IF t.threw THEN Catch(variant, t.message)
                 ELSE IF p.threw THEN Catch(variant, p.message)
                 ELSE IF fd.threw THEN Catch(variant, fd.message)
                 ELSE CompletedResult(p.value, t.value, fd))

\* openai.beta.threads.messages.list(...) settled: extract, parse, normalize.
MessagesListed ==
    /\ pc = "list"
    /\ \/ \E th \in Threads :
            /\ thread' = th
            /\ listed' = ListMessages(th, ListLimit)
            /\ Finish(getLatestAssistantMessage(variant, listed'))
            /\ UNCHANGED failed
       \/ \E m \in ErrorMessages :
            /\ Throw("list-messages", m)
            /\ UNCHANGED <<thread, listed, text, parsed, forDashboard>>
    /\ UNCHANGED <<variant, apiKey, client, req, userData, calls, threads, runs, now,
                   startedAt, observed, payload, response>>

\* await runProtocolAnalysis(userData) settled: 200 with the result as JSON; a
\* rejection would leave the handler and the runtime would answer 500.
SendResult ==
    /\ pc = "returned"
    /\ variant = "edge"
    /\ IF result.status = "rejected" THEN Respond(500, "Internal Server Error")
       ELSE Respond(200, "result")
    /\ UNCHANGED <<variant, apiKey, client, req, userData, calls, threads, runs, now,
                   startedAt, observed, failed, thread, listed, payload, text,
                   parsed, forDashboard, result>>

Next ==
    \/ Invoke
    \/ ServeRequest
    \/ BodyRead
    \/ ThreadCreated
    \/ MessageCreated
    \/ RunCreated
    \/ RunRetrieved
    \/ TimerFired
    \/ MessagesListed
    \/ SendResult

Spec == Init /\ [][Next]_vars

\* Every await settles and every timer fires.
FairSpec == Spec /\ WF_vars(Next)

\* The invocation is over: the server module returned, the edge function
\* answered.
Finished == pc = "done" \/ (pc = "returned" /\ variant = "server")

(***************************************************************************)
(* The payload formatter on all inputs.                                    *)
(***************************************************************************)
InitFormat ==
    /\ variant \in Variants
    /\ apiKey = "sk-test"
    /\ client = "null"
    /\ req \in [method : {"call"}, bodyOk : {TRUE}, body : AllUserData]
    /\ pc = "format"
    /\ Fresh

FormatPayload ==
    /\ pc = "format"
    /\ userData' = req.body
    /\ payload' = formatUserDataPayload(variant, req.body)
    /\ pc' = "formatted"
    /\ UNCHANGED <<variant, apiKey, client, req, calls, threads, runs, now, startedAt,
                   observed, failed, thread, listed, text, parsed, forDashboard,
                   result, response>>

SpecFormat == InitFormat /\ [][FormatPayload]_vars

(***************************************************************************)
(* The dashboard normalizer on all parsed replies.                         *)
(***************************************************************************)
InitNormalize ==
    /\ variant \in Variants
    /\ apiKey = "sk-test"
    /\ client = "null"
    /\ req = [method |-> "call", bodyOk |-> TRUE, body |-> UserUndefined]
    /\ pc = "normalize"
    /\ userData = UserUndefined
    /\ calls = <<>>
    /\ threads = 0
    /\ runs = 0
    /\ now = 0
    /\ startedAt = 0
    /\ observed = "none"
    /\ failed = "none"
    /\ thread = <<>>
    /\ listed = <<>>
    /\ payload = ""
    /\ text = NoText
    /\ parsed \in AllParsed
    /\ forDashboard = NoFieldsYet
    /\ result = NoResult
    /\ response = NoResponse

Normalize ==
    /\ pc = "normalize"
    /\ forDashboard' = normalizeForDashboard(variant, parsed)
    /\ pc' = "normalized"
    /\ UNCHANGED <<variant, apiKey, client, req, userData, calls, threads, runs, now,
                   startedAt, observed, failed, thread, listed, payload, text,
                   parsed, result, response>>

SpecNormalize == InitNormalize /\ [][Normalize]_vars

(***************************************************************************)
(* Properties.                                                             *)
(***************************************************************************)
Issued(op) == {i \in 1..Len(calls) : calls[i].op = op}
NumReads == Cardinality(Issued("retrieve-run"))

\* runProtocolAnalysis was called in this invocation.
Analysed == variant = "server" \/ (req.method = "POST" /\ req.bodyOk)

\* C1: runProtocolAnalysis never lets an error out: its result is always
\* either completed (protocolCached false) or cached (protocolCached true, with
\* an error message attached), whatever the outbound calls, the run statuses
\* and the reply were, and every invocation ends with such a result.
NeverPropagates ==
    /\ [](/\ result.status \in {"pending", "completed", "cached"}
          /\ result.status = "completed" => result.protocolCached = FALSE
          /\ result.status = "cached" =>
                 result.protocolCached = TRUE /\ "error" \in DOMAIN result
          /\ Finished /\ Analysed => result.status \in {"completed", "cached"})
    /\ <>Finished

\* A reply of JSON null ended in the cached outcome (edge function).
NullReplyCached ==
    /\ Finished
    /\ variant = "edge"
    /\ text.value = "null"
    /\ result.status = "cached"
    /\ result.error = "Cannot read properties of null"

DashboardKeys == {"protocolCached", "status", "directive", "insight", "statusText",
                  "protocolLogMessage"}

\* C2: every result runProtocolAnalysis returns has the keys protocolCached,
\* status, directive, insight, statusText and protocolLogMessage.
SameShape == result.status # "pending" => DashboardKeys \subseteq DOMAIN result

\* C3 as stated: without a credential the result is the cached outcome with
\* error 'OPENAI_API_KEY not set' in both variants, and no outbound call is
\* issued.
MissingKeyAsStated ==
    apiKey = "" =>
        /\ calls = <<>>
        /\ client = "null"
        /\ result.status # "pending" =>
               /\ result.protocolCached = TRUE
               /\ result.status = "cached"
               /\ result.error = "OPENAI_API_KEY not set"

\* C3: without a credential the result is the cached outcome (protocolCached
\* true, status cached) whose error is 'OPENAI_API_KEY not set' in the edge
\* function and 'OPENAI_API_KEY is not set' in the server module; no client is
\* constructed and no outbound call is issued.
MissingKey ==
    apiKey = "" =>
        /\ calls = <<>>
        /\ client = "null"
        /\ threads = 0 /\ runs = 0
        /\ Finished /\ Analysed => result.status = "cached"
        /\ result.status # "pending" =>
               /\ result.protocolCached = TRUE
               /\ result.status = "cached"
               /\ result.error = IF variant = "edge" THEN "OPENAI_API_KEY not set"
                                 ELSE "OPENAI_API_KEY is not set"

\* The server module returned without a credential.
MissingKeyReturned ==
    /\ apiKey = ""
    /\ variant = "server"
    /\ pc = "returned"
    /\ result.status = "cached"

\* The most status reads a wait can issue.
MaxReads == (maxWaitMs + pollIntervalMs - 1) \div pollIntervalMs

IssuesRead == Len(calls') = Len(calls) + 1 /\ calls'[Len(calls')].op = "retrieve-run"

\* C4: a status read is issued only while less than maxWaitMs has elapsed
\* since waitForRun started, one pollIntervalMs of sleep lies between two
\* reads, and when every read returned a non-terminal status the wait ends in
\* the timeout error, which becomes the cached outcome; the invocation always
\* terminates.
BoundedWait ==
    /\ [][IssuesRead => /\ now' - startedAt' < maxWaitMs
                        /\ pc \in {"createRun", "sleep"}
                        /\ pc = "sleep" => now' = now + pollIntervalMs]_vars
    /\ [][pc = "sleep" => pc' = "retrieve" \/ (pc' = "returned" /\ calls' = calls)]_vars
    /\ [](/\ NumReads <= MaxReads
          /\ (/\ pc \in {"returned", "done"}
              /\ NumReads > 0 /\ observed = "none" /\ failed = "none")
             => /\ now - startedAt >= maxWaitMs
                /\ result.status = "cached"
                /\ result.protocolCached = TRUE
                /\ result.error = TimeoutMessage)
    /\ <>Finished

\* A wait that polled as often as the window allows and timed out.
TimedOut ==
    /\ Finished
    /\ NumReads = MaxReads
    /\ observed = "none"
    /\ result.error = TimeoutMessage

KnownOps == {"create-thread", "create-message", "create-run", "retrieve-run",
             "list-messages"}

\* The order of the outbound calls: create-thread, create-message with the
\* formatted payload, create-run, status reads, and list-messages last.
CallOrder ==
    \A i \in 1..Len(calls) :
        /\ calls[i].op \in KnownOps
        /\ calls[i].op = "create-thread" <=> i = 1
        /\ calls[i].op = "create-message" <=> i = 2
        /\ calls[i].op = "create-run" <=> i = 3
        /\ calls[i].op = "create-message" =>
               calls[i].arg = formatUserDataPayload(variant, userData)
        /\ calls[i].op = "list-messages" => i = Len(calls) /\ i > 4

\* C5 as stated: every invocation creates exactly one thread and exactly one
\* run.
OneThreadOneRunAsStated ==
    Finished /\ Analysed => CallOrder /\ threads = 1 /\ runs = 1

\* C5: an invocation issues at most one create-thread and at most one
\* create-run (none without a credential, and no create-run after a failed
\* create-thread or create-message), in the order create-thread, create-message
\* with the formatted payload, create-run, status reads; every invocation that
\* reads the run status has created exactly one thread and one run; nothing is
\* retried, deleted or cancelled.
OneThreadOneRun ==
    /\ CallOrder
    /\ threads <= 1 /\ runs <= 1
    /\ threads <= Cardinality(Issued("create-thread"))
    /\ runs <= Cardinality(Issued("create-run"))
    /\ NumReads > 0 => threads = 1 /\ runs = 1
    /\ apiKey # "" /\ Finished /\ Analysed => Cardinality(Issued("create-thread")) = 1

\* A failed create-thread ended the invocation with nothing created.
CreateThreadFailed ==
    /\ Finished
    /\ failed = "create-thread"
    /\ Len(calls) = 1
    /\ threads = 0

\* C6: the handler answers every request once: OPTIONS 204 with an empty
\* body, other methods than POST 405, a POST whose body is not JSON 400 without
\* running the analysis, every other POST 200 with the result, completed or
\* cached; never a 5xx.
HandlerAnswers ==
    /\ [](/\ response.status < 500
          /\ pc # "done" => response = NoResponse
          /\ pc = "done" =>
               IF req.method = "OPTIONS"
               THEN response = [status |-> 204, body |-> "empty"]
               ELSE IF req.method # "POST" THEN response.status = 405
               ELSE IF ~req.bodyOk
               THEN /\ response = [status |-> 400, body |-> "Invalid JSON body"]
                    /\ result.status = "pending"
                    /\ calls = <<>>
               ELSE /\ response = [status |-> 200, body |-> "result"]
                    /\ result.status \in {"completed", "cached"})
    /\ [][response # NoResponse => response' = response]_vars
    /\ (variant = "edge" => <>(pc = "done"))

\* A POST whose analysis fell back to the cached outcome was answered 200.
FallbackAnswered ==
    /\ pc = "done"
    /\ response.status = 200
    /\ result.status = "cached"
    /\ failed = "retrieve-run"

Abnormal == {"failed", "cancelled", "expired"}

\* C9: the first terminal status a read returns ends the polling, with no
\* read after it: completed goes on to list-messages, failed, cancelled and
\* expired end in an error carrying the status, any other status leads to one
\* sleep of the poll interval and back to the loop; list-messages is issued
\* only after a read returned completed, and no completed result is returned
\* for a run seen failed, cancelled or expired, or not seen terminal at all.
TerminalEndsPolling ==
    /\ [][observed # "none" => ~IssuesRead]_vars
    /\ [][pc = "retrieve" =>
            \/ /\ pc' = "list"
               /\ observed' = "completed"
               /\ calls' = Append(calls, Call("list-messages", "desc"))
            \/ /\ pc' = "returned"
               /\ calls' = calls
               /\ result'.status = "cached"
               /\ \/ observed' \in Abnormal /\ result'.error = RunEnded(observed')
                  \/ observed' = "none" /\ failed' = "retrieve-run"
            \/ /\ pc' = "sleep"
               /\ observed' = "none"
               /\ calls' = calls
               /\ result'.status = "pending"]_vars
    /\ [][pc = "sleep" =>
            /\ now' = now + pollIntervalMs
            /\ IssuesRead \/ (pc' = "returned" /\ result'.error = TimeoutMessage)]_vars
    /\ [](/\ Issued("list-messages") # {} => observed = "completed"
          /\ result.status = "completed" => observed = "completed"
          /\ observed \in Abnormal =>
                 result.status = "cached" /\ result.error = RunEnded(observed))

\* A run seen expired after some polling.
ExpiredAfterPolling ==
    /\ Finished
    /\ observed = "expired"
    /\ NumReads > 2
    /\ result.error = RunEnded("expired")

(***************************************************************************)
(* The extraction, stated on the thread and the window of the listing.     *)
(***************************************************************************)
Window == SubSeq(thread, 1, IF Len(thread) < 10 THEN Len(thread) ELSE 10)
AssistantAt == {i \in 1..Len(Window) : Window[i].role = "assistant"}
HasAssistant == AssistantAt # {}
FirstAssistant == Window[CHOOSE i \in AssistantAt : \A j \in AssistantAt : i <= j]
TextAt(m) == {i \in 1..Len(m.content) : m.content[i].type = "text"}
HasTextPart(m) == m.hasContent /\ TextAt(m) # {}
FirstTextPart(m) == m.content[CHOOSE i \in TextAt(m) : \A j \in TextAt(m) : i <= j]
HasStringValue(part) == part.hasText /\ part.value.t = "str"
EmptyContent(m) == ~m.hasContent \/ Len(m.content) = 0

\* getLatestAssistantMessage ran on a listing.
Extracted == pc \in {"returned", "done"} /\ Issued("list-messages") # {} /\ failed = "none"

\* C10 as stated: the not-found error exactly when the window has no
\* assistant message, the no-text error exactly when it has one without a
\* string-valued first text part, else that value.
ExtractionAsStated ==
    Extracted =>
        /\ listed = Window
        /\ (text.threw /\ text.message = NoAssistantMessage) <=> ~HasAssistant
        /\ (text.threw /\ text.message = NoTextContent) <=>
               /\ HasAssistant
               /\ \/ ~HasTextPart(FirstAssistant)
                  \/ ~HasStringValue(FirstTextPart(FirstAssistant))
        /\ ~text.threw => text.value = FirstTextPart(FirstAssistant).value.s

\* C10: the 10 newest messages are requested newest first and the first one
\* of role assistant is taken.  The error is 'No assistant message in thread'
\* exactly when there is none, or its content is missing or empty, or (edge
\* function only) its content has no text part; it is 'No text content in
\* assistant message' exactly when the content is not empty and either (server
\* module only) has no text part or its first text part has no string value;
\* otherwise the value of that first text part is returned unchanged.
Extraction ==
    Extracted =>
        /\ listed = Window
        /\ calls[Len(calls)] = Call("list-messages", "desc")
        /\ (text.threw /\ text.message = NoAssistantMessage) <=>
               \/ ~HasAssistant
               \/ EmptyContent(FirstAssistant)
               \/ variant = "edge" /\ ~HasTextPart(FirstAssistant)
        /\ (text.threw /\ text.message = NoTextContent) <=>
               /\ HasAssistant
               /\ ~EmptyContent(FirstAssistant)
               /\ IF HasTextPart(FirstAssistant)
                  THEN ~HasStringValue(FirstTextPart(FirstAssistant))
                  ELSE variant = "server"
        /\ text.threw => text.message \in {NoAssistantMessage, NoTextContent}
        /\ ~text.threw =>
               /\ HasAssistant /\ HasTextPart(FirstAssistant)
               /\ text.value = FirstTextPart(FirstAssistant).value.s

\* The assistant message is the tenth of the window and its text was taken.
TenthMessageTaken ==
    /\ Extracted
    /\ Len(thread) > 10
    /\ AssistantAt = {10}
    /\ ~text.threw
    /\ text.value = "{}"

(***************************************************************************)
(* The pure functions, stated on their inputs.                             *)
(***************************************************************************)
\* The first of the values that is present (neither absent nor null).
RECURSIVE FirstPresent(_, _)
FirstPresent(values, default) ==
    IF Len(values) = 0 THEN default
    ELSE IF values[1].t \notin {"undefined", "null"} THEN values[1]
    ELSE FirstPresent(Tail(values), default)

\* C7: normalizeForDashboard is a total function that never fails, on every
\* parsed reply, malformed values included.
NormalizerNeverFails == pc = "normalized" => ~forDashboard.threw

\* The fields of C7 on the replies that are objects: directive the first
\* present of directive, recommendation, summary, else ''; insight the first
\* present of insight, analysis, else ''; statusText the first present of
\* status, statusText, else 'Optimal Baseline'; protocolLogMessage the first
\* present of protocolLogMessage, directive, summary, else ''.
NormalizerFields ==
    pc = "normalized" /\ parsed.t \in {"obj", "arr"} =>
        /\ ~forDashboard.threw
        /\ \A k \in {"directive", "insight", "statusText", "protocolLogMessage"} :
               forDashboard[k].t = "str"
        /\ forDashboard.directive =
               FirstPresent(<<parsed.f["directive"], parsed.f["recommendation"],
                              parsed.f["summary"]>>, Str(""))
        /\ forDashboard.insight =
               FirstPresent(<<parsed.f["insight"], parsed.f["analysis"]>>, Str(""))
        /\ forDashboard.statusText =
               FirstPresent(<<parsed.f["status"], parsed.f["statusText"]>>,
                            Str("Optimal Baseline"))
        /\ forDashboard.protocolLogMessage =
               FirstPresent(<<parsed.f["protocolLogMessage"], parsed.f["directive"],
                              parsed.f["summary"]>>, Str(""))
        /\ parsed = ReplyHydration =>
               /\ forDashboard.directive = Str("Increase hydration")
               /\ forDashboard.insight = Str("Electrolytes low")
               /\ forDashboard.protocolLogMessage = Str("Increase hydration")
               /\ forDashboard.statusText = Str("Optimal Baseline")

\* A value the formatter gives a section: a non-null object or an array.
Recognizable(v) == v.t \in {"obj", "arr"}

\* The sections of the input, labs and calendar being the first non-null of
\* their keys.
ExpectedSections(f) ==
    LET labs == FirstPresent(<<f["clinical_markers"], f["clinical_audit"], f["labs"]>>,
                             Undefined)
        calendar == FirstPresent(<<f["calendar_events"], f["calendar"]>>, Undefined)
    IN (IF Recognizable(f["biometrics"])
          THEN <<"## Biometrics\n" \o Stringify(f["biometrics"], "")>> ELSE <<>>)
       \o (IF Recognizable(labs)
          THEN <<"## Labs / Clinical\n" \o Stringify(labs, "")>> ELSE <<>>)
       \o (IF Recognizable(calendar)
          THEN <<"## Calendar\n" \o Stringify(calendar, "")>> ELSE <<>>)

\* C8: formatUserDataPayload returns a non-empty string on every input: 'No
\* data provided.' when the input is null or not an object, the pretty-printed
\* JSON of the whole input when none of its biometrics, labs and calendar
\* values is recognizable, else the accepted sections in the order Biometrics,
\* Labs / Clinical, Calendar joined by a blank line.
FormatterAsStated ==
    pc = "formatted" =>
        /\ payload # ""
        /\ IF userData.kind \notin {"obj", "arr"} THEN payload = "No data provided."
           ELSE IF ExpectedSections(userData.f) = <<>>
           THEN payload = StringifyUserData(userData)
           ELSE payload = Join(ExpectedSections(userData.f), "\n\n")

====
